---- MODULE Spec2Model ----
(***************************************************************************)
(* Model of timeedit_csv_to_canvas.py: the TimeEdit CSV -> Canvas calendar *)
(* import script.  Text is modelled as a sequence of one-character         *)
(* strings, so that split / strip / slicing / lower are computed the way   *)
(* the Python code computes them.                                          *)
(***************************************************************************)
EXTENDS Integers, Sequences, FiniteSets, TLC

(* ------------------------------------------------------------------ *)
(* Bounds of the model                                                 *)
(* ------------------------------------------------------------------ *)
\* Largest number of data rows in the CSV file.
MaxRows == 2

(* ------------------------------------------------------------------ *)
(* Configuration section (lines 27-33)                                 *)
(* ------------------------------------------------------------------ *)
CANVAS_DOMAIN == "chalmers.instructure.com"
COURSE_ID == "ADD YOUR COURSE ID HERE"
CSV_FILE == "ADD YOUR CSV FILE PATH HERE"
TIMEZONE_OFFSET == 1
\* The value API_TOKEN holds when the operator has not edited the script.
API_TOKEN_DEFAULT == "ADD YOUR API TOKEN HERE"
\* The literal main() compares API_TOKEN with.
API_TOKEN_CHECKED == "YOUR_API_TOKEN_HERE"
BASE_URL == "https://chalmers.instructure.com/api/v1"

(* ------------------------------------------------------------------ *)
(* Python str primitives on sequences of characters                    *)
(* ------------------------------------------------------------------ *)
Whitespace == {" ", "\t", "\n", "\r"}
Digits == <<"0", "1", "2", "3", "4", "5", "6", "7", "8", "9">>
UpperCase == <<"A", "B", "C", "D", "E", "F", "G", "H", "I", "J", "K", "L", "M",
               "N", "O", "P", "Q", "R", "S", "T", "U", "V", "W", "X", "Y", "Z">>
LowerCase == <<"a", "b", "c", "d", "e", "f", "g", "h", "i", "j", "k", "l", "m",
               "n", "o", "p", "q", "r", "s", "t", "u", "v", "w", "x", "y", "z">>

IsDigit(c) == \E i \in 1..10 : Digits[i] = c
DigitVal(c) == (CHOOSE i \in 1..10 : Digits[i] = c) - 1
DigitChar(n) == Digits[n + 1]

\* s[:n]
Prefix(s, n) == SubSeq(s, 1, IF Len(s) < n THEN Len(s) ELSE n)
\* s[n:]  (n is the 0-based Python index)
Suffix(s, n) == SubSeq(s, n + 1, Len(s))

RECURSIVE lstrip(_)
lstrip(s) == IF s # <<>> /\ Head(s) \in Whitespace THEN lstrip(Tail(s)) ELSE s

RECURSIVE rstrip(_)
rstrip(s) ==
    IF s # <<>> /\ s[Len(s)] \in Whitespace
    THEN rstrip(SubSeq(s, 1, Len(s) - 1))
    ELSE s

\* str.strip()
strip(s) == rstrip(lstrip(s))

\* str.lower(), on the ASCII letters
lower(s) ==
    [i \in 1..Len(s) |->
        IF \E k \in 1..26 : UpperCase[k] = s[i]
        THEN LowerCase[CHOOSE k \in 1..26 : UpperCase[k] = s[i]]
        ELSE s[i]]

\* str.split(','): always at least one segment, empty segments are kept
RECURSIVE split(_)
split(s) ==
    IF \E i \in 1..Len(s) : s[i] = ","
    THEN LET i == CHOOSE i \in 1..Len(s) :
                    s[i] = "," /\ \A j \in 1..(i - 1) : s[j] # ","
         IN  <<SubSeq(s, 1, i - 1)>> \o split(Suffix(s, i))
    ELSE <<s>>

\* sep.join(items)
RECURSIVE join(_, _)
join(sep, items) ==
    IF items = <<>> THEN <<>>
    ELSE IF Len(items) = 1 THEN items[1]
    ELSE items[1] \o sep \o join(sep, Tail(items))

\* "".join(parts)
RECURSIVE concat(_)
concat(parts) == IF parts = <<>> THEN <<>> ELSE Head(parts) \o concat(Tail(parts))

\* [f(x) for x in items if x.strip()] with f = strip
RECURSIVE StrippedNonEmpty(_)
StrippedNonEmpty(items) ==
    IF items = <<>> THEN <<>>
    ELSE IF strip(Head(items)) # <<>>
         THEN <<strip(Head(items))>> \o StrippedNonEmpty(Tail(items))
         ELSE StrippedNonEmpty(Tail(items))

\* [code[:6] for code in items if code.strip()]
CodeLen == 6
RECURSIVE TruncatedNonEmpty(_)
TruncatedNonEmpty(items) ==
    IF items = <<>> THEN <<>>
    ELSE IF strip(Head(items)) # <<>>
         THEN <<Prefix(Head(items), CodeLen)>> \o TruncatedNonEmpty(Tail(items))
         ELSE TruncatedNonEmpty(Tail(items))

\* zero-padded decimal of width w (strftime %Y %m %d %H %M %S)
RECURSIVE Pad(_, _)
Pad(n, w) == IF w = 0 THEN <<>> ELSE Pad(n \div 10, w - 1) \o <<DigitChar(n % 10)>>

\* int() of a run of digits
RECURSIVE ToInt(_)
ToInt(s) == IF s = <<>> THEN 0 ELSE 10 * ToInt(SubSeq(s, 1, Len(s) - 1)) + DigitVal(s[Len(s)])

AllDigits(s) == \A i \in 1..Len(s) : IsDigit(s[i])

\* index of the first occurrence of c at or after position p, 0 when none
IndexFrom(s, c, p) ==
    IF \E i \in p..Len(s) : s[i] = c
    THEN CHOOSE i \in p..Len(s) : s[i] = c /\ \A j \in p..(i - 1) : s[j] # c
    ELSE 0

(* ------------------------------------------------------------------ *)
(* datetime: strptime, timedelta subtraction, strftime                 *)
(* ------------------------------------------------------------------ *)
IsLeap(y) == (y % 4 = 0 /\ y % 100 # 0) \/ y % 400 = 0

DaysInMonth(y, m) ==
    IF m = 2 THEN (IF IsLeap(y) THEN 29 ELSE 28)
    ELSE IF m \in {4, 6, 9, 11} THEN 30 ELSE 31

\* A field of one or two digits whose value lies in lo..hi: the directives
\* %m (1[0-2]|0[1-9]|[1-9]), %H (2[0-3]|[0-1]\d|\d) and %M ([0-5]\d|\d).
NumField(s, lo, hi) ==
    /\ Len(s) \in {1, 2}
    /\ AllDigits(s)
    /\ ToInt(s) \in lo..hi

\* Last position of the %d field (3[01]|[12]\d|0[1-9]|[1-9]| [1-9]) that
\* starts at position p, 0 when the field does not match there.
DayEnd(s, p) ==
    IF p > Len(s) THEN 0
    ELSE IF s[p] = " "
         THEN (IF p + 1 <= Len(s) /\ IsDigit(s[p + 1]) /\ s[p + 1] # "0"
               THEN p + 1 ELSE 0)
    ELSE IF p + 1 <= Len(s) /\ IsDigit(s[p]) /\ IsDigit(s[p + 1])
            /\ ToInt(SubSeq(s, p, p + 1)) \in 1..31
         THEN p + 1
    ELSE IF IsDigit(s[p]) /\ s[p] # "0" THEN p
    ELSE 0

\* First position at or after p that holds no whitespace (Len(s)+1 when none)
RECURSIVE SkipSpace(_, _)
SkipSpace(s, p) ==
    IF p <= Len(s) /\ s[p] \in Whitespace THEN SkipSpace(s, p + 1) ELSE p

ValueError == [ok |-> FALSE]

\* datetime.strptime(s, "%Y-%m-%d %H:%M"): the whole text has to match
\* \d\d\d\d - month - day \s+ hour : minute, and the date has to exist.
strptime(s) ==
    IF ~(Len(s) >= 5 /\ AllDigits(SubSeq(s, 1, 4)) /\ s[5] = "-") THEN ValueError
    ELSE
    LET i2 == IndexFrom(s, "-", 6) IN
    IF ~(i2 > 0 /\ NumField(SubSeq(s, 6, i2 - 1), 1, 12)) THEN ValueError
    ELSE
    LET dEnd == DayEnd(s, i2 + 1) IN
    IF dEnd = 0 THEN ValueError
    ELSE
    LET h0 == SkipSpace(s, dEnd + 1) IN
    IF h0 = dEnd + 1 THEN ValueError
    ELSE
    LET i3 == IndexFrom(s, ":", h0) IN
    IF ~(i3 > 0 /\ NumField(SubSeq(s, h0, i3 - 1), 0, 23)
                /\ NumField(Suffix(s, i3), 0, 59)) THEN ValueError
    ELSE
    LET y  == ToInt(SubSeq(s, 1, 4))
        mo == ToInt(SubSeq(s, 6, i2 - 1))
        d  == ToInt(strip(SubSeq(s, i2 + 1, dEnd)))
    IN  IF y < 1 \/ d > DaysInMonth(y, mo) THEN ValueError
        ELSE [ok |-> TRUE,
              dt |-> [Y |-> y, m |-> mo, d |-> d,
                      H |-> ToInt(SubSeq(s, h0, i3 - 1)),
                      M |-> ToInt(Suffix(s, i3))]]

\* The day before the date of dt (the date part of dt - timedelta(days=1))
PrevDay(dt) ==
    IF dt.d > 1 THEN [dt EXCEPT !.d = dt.d - 1]
    ELSE IF dt.m > 1
         THEN [dt EXCEPT !.m = dt.m - 1, !.d = DaysInMonth(dt.Y, dt.m - 1)]
    ELSE [dt EXCEPT !.Y = dt.Y - 1, !.m = 12, !.d = 31]

\* dt - timedelta(hours=h) for 0 <= h <= 24; OverflowError before year 1
SubHours(dt, h) ==
    IF dt.H >= h THEN [ok |-> TRUE, dt |-> [dt EXCEPT !.H = dt.H - h]]
    ELSE LET p == PrevDay(dt)
         IN  IF p.Y < 1 THEN [ok |-> FALSE]
             ELSE [ok |-> TRUE, dt |-> [p EXCEPT !.H = dt.H + 24 - h]]

\* dt.strftime('%Y-%m-%dT%H:%M:%SZ')
strftime_iso(dt) ==
    Pad(dt.Y, 4) \o <<"-">> \o Pad(dt.m, 2) \o <<"-">> \o Pad(dt.d, 2) \o <<"T">>
    \o Pad(dt.H, 2) \o <<":">> \o Pad(dt.M, 2) \o <<":">> \o Pad(0, 2) \o <<"Z">>

\* dt.strftime('%Y-%m-%d %H:%M')
strftime_local(dt) ==
    Pad(dt.Y, 4) \o <<"-">> \o Pad(dt.m, 2) \o <<"-">> \o Pad(dt.d, 2) \o <<" ">>
    \o Pad(dt.H, 2) \o <<":">> \o Pad(dt.M, 2)

(* ------------------------------------------------------------------ *)
(* Rows of the csv.DictReader and parse_csv_file                       *)
(* ------------------------------------------------------------------ *)
\* The columns the script reads.
Columns == {"Begin date", "Begin time", "End date", "End time", "Course code",
            "Course name", "Activity", "Title", "Room", "class code", "Name"}

\* A row is [f |-> text of each column, none |-> the columns a short row
\* lacks]: DictReader fills the columns of a short row with None.
\* not row.get(k)
Falsy(row, k) == k \in row.none \/ row.f[k] = <<>>

\* row.get(k, '').strip() raises AttributeError when the value is None
CanStrip(row, k) == k \notin row.none

\* [x.strip() for x in row.get(k, '').strip().split(',') if x.strip()]
ListField(row, k) == StrippedNonEmpty(split(strip(row.f[k])))

\* course_codes of line 99-100
CourseCodes(row) == TruncatedNonEmpty(split(strip(row.f["Course code"])))

\* f"{date} {time}" of the stripped date and time columns (lines 85-92)
DateTimeText(row, dk, tk) == strip(row.f[dk]) \o <<" ">> \o strip(row.f[tk])

\* Variant of IsBlankRow that skips only rows lacking both fields
IsBlankRowBoth(row) == Falsy(row, "Begin date") /\ Falsy(row, "Begin time")

\* line 81: the row is skipped
IsBlankRow(row) == Falsy(row, "Begin date") \/ Falsy(row, "Begin time")

\* One iteration of the loop of lines 79-135:
\* "skip" (continue), "raise" (an exception leaves parse_csv_file) or "event".
ParseRow(row) ==
    IF IsBlankRow(row) THEN [kind |-> "skip"]
    ELSE IF ~CanStrip(row, "End date") \/ ~CanStrip(row, "End time")
    THEN [kind |-> "raise"]
    ELSE
    LET start_dt_local == strptime(DateTimeText(row, "Begin date", "Begin time"))
        end_dt_local   == strptime(DateTimeText(row, "End date", "End time"))
    IN
    IF ~start_dt_local.ok \/ ~end_dt_local.ok THEN [kind |-> "raise"]
    ELSE
    LET start_dt == SubHours(start_dt_local.dt, TIMEZONE_OFFSET)
        end_dt   == SubHours(end_dt_local.dt, TIMEZONE_OFFSET)
    IN
    IF ~start_dt.ok \/ ~end_dt.ok THEN [kind |-> "raise"]
    ELSE IF \E k \in {"Course code", "Course name", "Activity", "Title", "Room",
                      "class code", "Name"} : ~CanStrip(row, k)
    THEN [kind |-> "raise"]
    ELSE [kind |-> "event",
          event |-> [start        |-> start_dt.dt,
                     end          |-> end_dt.dt,
                     course_codes |-> CourseCodes(row),
                     course_names |-> ListField(row, "Course name"),
                     activities   |-> ListField(row, "Activity"),
                     title        |-> strip(row.f["Title"]),
                     room         |-> strip(row.f["Room"]),
                     class_codes  |-> ListField(row, "class code"),
                     class_names  |-> ListField(row, "Name")]]

\* Variant of ParseRows that recovers per row: a row that raises is dropped
RECURSIVE ParseRowsSkippingBad(_, _)
ParseRowsSkippingBad(rows, events) ==
    IF rows = <<>> THEN [ok |-> TRUE, events |-> events]
    ELSE LET r == ParseRow(Head(rows))
         IN  IF r.kind = "event"
             THEN ParseRowsSkippingBad(Tail(rows), Append(events, r.event))
             ELSE ParseRowsSkippingBad(Tail(rows), events)

\* The loop over the reader: events so far, or the exception that ends it.
RECURSIVE ParseRows(_, _)
ParseRows(rows, events) ==
    IF rows = <<>> THEN [ok |-> TRUE, events |-> events]
    ELSE LET r == ParseRow(Head(rows))
         IN  IF r.kind = "raise" THEN [ok |-> FALSE, exc |-> "Exception"]
             ELSE IF r.kind = "skip" THEN ParseRows(Tail(rows), events)
             ELSE ParseRows(Tail(rows), Append(events, r.event))

\* parse_csv_file(file_path).  A file is [found, preamble, rows]: whether the
\* path can be opened, whether it has the 3 lines that are skipped, and the
\* rows the DictReader yields after them.
parse_csv_file(file) ==
    IF ~file.found THEN [ok |-> FALSE, exc |-> "FileNotFoundError"]
    ELSE IF ~file.preamble THEN [ok |-> FALSE, exc |-> "Exception"]
    ELSE ParseRows(file.rows, <<>>)

(* ------------------------------------------------------------------ *)
(* State of one run of the script                                      *)
(* ------------------------------------------------------------------ *)
VARIABLES
    API_TOKEN,      \* configuration value of line 28, as the operator left it
    LANGUAGE,       \* configuration value of line 32
    file,           \* the CSV file at CSV_FILE
    pc,             \* position of main()
    events,         \* main's events, <<>> until parse_csv_file has returned
    console,        \* what has been printed, as a sequence of tagged lines
    confirm,        \* the answers input() has returned: <<>>, then <<answer>>
    success_count,  \* line 289, 0 until the loop starts
    error_count,    \* line 290, 0 until the loop starts
    i,              \* index of the current iteration of the loop of line 292
    sent,           \* the create-requests handed to urlopen, in order
    outcomes,       \* what urlopen did for each request, in order
    exit_code       \* process exit status, -1 while the script runs

vars == <<API_TOKEN, LANGUAGE, file, pc, events, console, confirm,
          success_count, error_count, i, sent, outcomes, exit_code>>

(* ------------------------------------------------------------------ *)
(* Translations and formatting                                         *)
(* ------------------------------------------------------------------ *)
TRANSLATIONS ==
    [en |-> [course |-> <<"C", "o", "u", "r", "s", "e">>, courses |-> <<"C", "o", "u", "r", "s", "e", "s">>,
             activity |-> <<"A", "c", "t", "i", "v", "i", "t", "y">>, title |-> <<"T", "i", "t", "l", "e">>,
             location |-> <<"L", "o", "c", "a", "t", "i", "o", "n">>, room |-> <<"R", "o", "o", "m">>,
             campus |-> <<"C", "a", "m", "p", "u", "s">>, classes |-> <<"C", "l", "a", "s", "s", "e", "s">>],
     sv |-> [course |-> <<"K", "u", "r", "s">>, courses |-> <<"K", "u", "r", "s", "e", "r">>,
             activity |-> <<"A", "k", "t", "i", "v", "i", "t", "e", "t">>, title |-> <<"T", "i", "t", "e", "l">>,
             location |-> <<"P", "l", "a", "t", "s">>, room |-> <<"R", "u", "m">>,
             campus |-> <<"C", "a", "m", "p", "u", "s">>, classes |-> <<"K", "l", "a", "s", "s", "e", "r">>]]

\* t(key): every key the script asks for is in the table
t(key) == TRANSLATIONS[LANGUAGE][key]

BR == <<"<", "b", "r", ">">>
Ellipsis == <<".", ".", ".">>
\* The one-character strings that stand for the emoji of lines 172, 177, 182
Clipboard == "U+1F4CB"
Pushpin == "U+1F4CC"
RoundPushpin == "U+1F4CD"

TitleMax == 40
TitleKeep == 37

\* Variant of format_event_title that prefers the title to the activities
format_event_title_TitleFirst(event) ==
    IF event.title # <<>> THEN event.title
    ELSE IF event.activities # <<>> THEN join(<<",", " ">>, event.activities)
    ELSE IF event.course_names # <<>>
    THEN LET course == event.course_names[1]
         IN  IF Len(course) > TitleMax
             THEN Prefix(course, TitleKeep) \o Ellipsis
             ELSE course
    ELSE <<"E", "v", "e", "n", "t">>

format_event_title(event) ==
    IF event.activities # <<>> THEN join(<<",", " ">>, event.activities)
    ELSE IF event.title # <<>> THEN event.title
    ELSE IF event.course_names # <<>>
    THEN LET course == event.course_names[1]
         IN  IF Len(course) > TitleMax
             THEN Prefix(course, TitleKeep) \o Ellipsis
             ELSE course
    ELSE <<"E", "v", "e", "n", "t">>

\* The lines of the course block, one per course code (lines 162-167)
CourseLines(event) ==
    [k \in 1..Len(event.course_codes) |->
        LET code == event.course_codes[k]
            name == IF k <= Len(event.course_names)
                    THEN event.course_names[k] ELSE <<>>
        IN  IF name # <<>>
            THEN <<" ", " ", " ">> \o code \o <<" ", "-", " ">> \o name \o BR
            ELSE <<" ", " ", " ">> \o code \o BR]

\* Variant of ShowsTitle that compares the title with the joined activities
ShowsTitleUnlessJoined(event) ==
    event.title # <<>> /\ event.title # join(<<",", " ">>, event.activities)

\* line 176: event['title'] and event['title'] not in event['activities']
ShowsTitle(event) ==
    event.title # <<>> /\ ~(\E k \in 1..Len(event.activities) :
                                event.activities[k] = event.title)

\* The list parts of format_event_description before it is joined
DescriptionParts(event) ==
    (IF event.course_codes # <<>>
     THEN <<(IF Len(event.course_codes) > 1 THEN t("courses") ELSE t("course"))
            \o <<":">> \o BR>>
          \o CourseLines(event) \o <<BR>>
     ELSE <<>>)
    \o
    (IF event.activities # <<>>
     THEN <<<<Clipboard>> \o <<" ">> \o t("activity") \o <<":", " ">>
            \o join(<<",", " ">>, event.activities) \o BR, BR>>
     ELSE <<>>)
    \o
    (IF ShowsTitle(event)
     THEN <<<<Pushpin>> \o <<" ">> \o t("title") \o <<":", " ">> \o event.title \o BR, BR>>
     ELSE <<>>)
    \o
    (IF event.room # <<>>
     THEN <<<<RoundPushpin>> \o <<" ">> \o t("location") \o <<":", " ">> \o event.room \o BR, BR>>
     ELSE <<>>)

format_event_description(event) == strip(concat(DescriptionParts(event)))

format_location(event) == IF event.room # <<>> THEN event.room ELSE <<>>

\* The request create_canvas_event builds (lines 193-221)
Request(event) ==
    [url     |-> <<BASE_URL, "/calendar_events">>,
     method  |-> "POST",
     headers |-> [Authorization |-> <<"Bearer ", API_TOKEN>>,
                  ContentType   |-> "application/json"],
     calendar_event |->
        [context_code  |-> <<"course_", COURSE_ID>>,
         title         |-> format_event_title(event),
         start_at      |-> strftime_iso(event.start),
         end_at        |-> strftime_iso(event.end),
         location_name |-> format_location(event),
         description   |-> format_event_description(event)]]

(* ------------------------------------------------------------------ *)
(* Inputs of a run                                                     *)
(* ------------------------------------------------------------------ *)
Rep(c, n) == [k \in 1..n |-> c]

Row(bd, bt, ed, et, cc, cn, act, title, room, none) ==
    [f |-> [k \in Columns |->
              CASE k = "Begin date"  -> bd
                [] k = "Begin time"  -> bt
                [] k = "End date"    -> ed
                [] k = "End time"    -> et
                [] k = "Course code" -> cc
                [] k = "Course name" -> cn
                [] k = "Activity"    -> act
                [] k = "Title"       -> title
                [] k = "Room"        -> room
                [] k = "class code"  -> <<"T", "K", "D", "A", "T", "-", "1">>
                [] OTHER             -> <<"D", "a", "t", "a", "t", "e", "k", "n", "i", "k">>],
     none |-> none]

\* Rows that yield an event
RowLecture == Row(<<"2", "0", "2", "4", "-", "0", "1", "-", "1", "5">>, <<"1", "0", ":", "0", "0">>, <<"2", "0", "2", "4", "-", "0", "1", "-", "1", "5">>, <<"1", "1", ":", "0", "0">>,
                  <<"A", "A", "A", "1", "1", "1">>, <<"A", "l", "g", "e", "b", "r", "a">>, <<"L", "e", "c", "t", "u", "r", "e">>, <<"I", "n", "t", "r", "o">>, <<"H", "B", "1">>, {})
RowMulti   == Row(<<"2", "0", "2", "4", "-", "0", "3", "-", "0", "1">>, <<"0", "0", ":", "3", "0">>, <<"2", "0", "2", "4", "-", "0", "3", "-", "0", "1">>, <<"0", "2", ":", "0", "0">>,
                  <<"A", "A", "A", "1", "1", "1", ",", " ", "B", "B", "B", "2", "2", "2", "2">>, <<"A", "l", "g", "e", "b", "r", "a">>, <<"L", "a", "b", ",", " ", "L", "e", "c", "t", "u", "r", "e">>, <<"L", "e", "c", "t", "u", "r", "e">>, <<>>, {})
RowSeminar == Row(<<"2", "0", "2", "4", "-", "1", "-", "5">>, <<"9", ":", "0", "0">>, <<"2", "0", "2", "4", "-", "1", "-", "5">>, <<"1", "0", ":", "5">>,
                  <<"T", "D", "A", "3", "5", "7", "1">>, <<>>, <<" ", ",", " ">>, <<" ", "S", "e", "m", "i", "n", "a", "r", " ">>, <<"H", "B", "2">>, {})
RowLong    == Row(<<"2", "0", "2", "3", "-", "1", "2", "-", "3", "1">>, <<"2", "3", ":", "1", "5">>, <<"2", "0", "2", "4", "-", "0", "1", "-", "0", "1">>, <<"0", "0", ":", "4", "5">>,
                  <<>>, Rep("x", TitleMax + 1) \o <<",", " ", "C", "a", "l", "c", "u", "l", "u", "s">>, <<>>, <<>>, <<>>, {})
RowForty   == Row(<<"2", "0", "2", "4", "-", "0", "2", "-", "2", "9">>, <<"0", "8", ":", "0", "0">>, <<"2", "0", "2", "4", "-", "0", "2", "-", "2", "9">>, <<"0", "9", ":", "4", "5">>,
                  <<",">>, Rep("y", TitleMax), <<>>, <<>>, <<"H", "C", "4">>, {})
RowBare    == Row(<<"2", "0", "2", "4", "-", "0", "5", "-", "0", "2">>, <<"1", "3", ":", "1", "5">>, <<"2", "0", "2", "4", "-", "0", "5", "-", "0", "2">>, <<"1", "5", ":", "0", "0">>,
                  <<>>, <<>>, <<>>, <<>>, <<>>, {})
\* Blank rows
RowNoDate  == Row(<<>>, <<>>, <<>>, <<>>, <<>>, <<>>, <<>>, <<>>, <<>>,
                  Columns \ {"Name"})
RowNoTime  == Row(<<"2", "0", "2", "4", "-", "0", "1", "-", "1", "6">>, <<>>, <<"2", "0", "2", "4", "-", "0", "1", "-", "1", "6">>, <<"1", "1", ":", "0", "0">>,
                  <<"A", "A", "A", "1", "1", "1">>, <<"A", "l", "g", "e", "b", "r", "a">>, <<"L", "e", "c", "t", "u", "r", "e">>, <<"N", "o", "t", "e">>, <<"H", "B", "1">>, {})
\* Rows that pass the blank-row check and cannot be parsed
RowBadBegin == Row(<<"1", "5", "/", "0", "1", "/", "2", "0", "2", "4">>, <<"1", "0", ":", "0", "0">>, <<"2", "0", "2", "4", "-", "0", "1", "-", "1", "5">>, <<"1", "1", ":", "0", "0">>,
                   <<"A", "A", "A", "1", "1", "1">>, <<"A", "l", "g", "e", "b", "r", "a">>, <<"L", "e", "c", "t", "u", "r", "e">>, <<>>, <<"H", "B", "1">>, {})
RowBadEnd   == Row(<<"2", "0", "2", "4", "-", "0", "1", "-", "1", "5">>, <<"1", "0", ":", "0", "0">>, <<"2", "0", "2", "4", "-", "0", "2", "-", "3", "0">>, <<"2", "5", ":", "0", "0">>,
                   <<"A", "A", "A", "1", "1", "1">>, <<"A", "l", "g", "e", "b", "r", "a">>, <<"L", "e", "c", "t", "u", "r", "e">>, <<>>, <<"H", "B", "1">>, {})
RowSpace    == Row(<<"2", "0", "2", "4", "-", "0", "1", "-", "1", "5">>, <<" ">>, <<"2", "0", "2", "4", "-", "0", "1", "-", "1", "5">>, <<"1", "1", ":", "0", "0">>,
                   <<>>, <<>>, <<"L", "e", "c", "t", "u", "r", "e">>, <<>>, <<>>, {})
RowShort    == Row(<<"2", "0", "2", "4", "-", "0", "1", "-", "1", "5">>, <<"1", "0", ":", "0", "0">>, <<"2", "0", "2", "4", "-", "0", "1", "-", "1", "5">>, <<"1", "1", ":", "0", "0">>,
                   <<"A", "A", "A", "1", "1", "1">>, <<"A", "l", "g", "e", "b", "r", "a">>, <<"L", "e", "c", "t", "u", "r", "e">>, <<>>, <<>>,
                   {"Room", "class code", "Name"})

RowSamples == {RowLecture, RowMulti, RowSeminar, RowLong, RowForty, RowBare,
               RowNoDate, RowNoTime, RowBadBegin, RowBadEnd, RowSpace, RowShort}

RowSeqs == UNION {[1..n -> RowSamples] : n \in 0..MaxRows}

Files ==
    {[found |-> FALSE, preamble |-> FALSE, rows |-> <<>>],
     [found |-> TRUE, preamble |-> FALSE, rows |-> <<>>]}
    \cup {[found |-> TRUE, preamble |-> TRUE, rows |-> rs] : rs \in RowSeqs}

Tokens == {API_TOKEN_DEFAULT, API_TOKEN_CHECKED, "7~secret"}
Languages == {"en", "sv"}

\* What the operator may type at the prompt
Answers == {<<"Y", "E", "S">>, <<"y">>, <<"n", "o">>, <<>>, <<" ", "y">>}

\* Status codes of the responses: urlopen returns the 2xx ones and raises
\* HTTPError for the others, and create_canvas_event returns both.
StatusCodes == {200, 201, 404}

(* ------------------------------------------------------------------ *)
(* main()                                                              *)
(* ------------------------------------------------------------------ *)
Line(tag) == [tag |-> tag]

Init ==
    /\ API_TOKEN \in Tokens
    /\ LANGUAGE \in Languages
    /\ file \in Files
    /\ pc = "start"
    /\ events = <<>>
    /\ console = <<>>
    /\ confirm = <<>>
    /\ success_count = 0
    /\ error_count = 0
    /\ i = 0
    /\ sent = <<>>
    /\ outcomes = <<>>
    /\ exit_code = -1

\* sys.exit(code), or main() returning (code 0)
Exit(code, line) ==
    /\ console' = Append(console, line)
    /\ exit_code' = code
    /\ pc' = "exit"

\* lines 230-248: the placeholder check, then the banner
CheckToken ==
    /\ pc = "start"
    /\ IF API_TOKEN = API_TOKEN_CHECKED
       THEN Exit(1, Line("ERROR: Please edit the script and add your API token"))
       ELSE /\ console' = Append(console, Line("banner"))
            /\ pc' = "parse"
            /\ UNCHANGED exit_code
    /\ UNCHANGED <<API_TOKEN, LANGUAGE, file, events, confirm, success_count,
                   error_count, i, sent, outcomes>>

\* lines 250-264: parse_csv_file and its two except clauses
Parse ==
    /\ pc = "parse"
    /\ LET r == parse_csv_file(file)
       IN  IF r.ok
           THEN /\ events' = r.events
                /\ console' = Append(console,
                                [tag |-> "Found events to import", n |-> Len(r.events)])
                /\ pc' = "display"
                /\ UNCHANGED exit_code
           ELSE /\ IF r.exc = "FileNotFoundError"
                   THEN Exit(1, Line("ERROR: Could not find file"))
                   ELSE Exit(1, Line("ERROR parsing CSV file"))
                /\ UNCHANGED events
    /\ UNCHANGED <<API_TOKEN, LANGUAGE, file, confirm, success_count,
                   error_count, i, sent, outcomes>>

\* One entry of the listing (lines 270-278)
Listing(k, event) ==
    [tag     |-> "listing",
     n       |-> k,
     title   |-> format_event_title(event),
     start   |-> strftime_local(event.start),
     end     |-> strftime_local(event.end),
     room    |-> event.room,
     courses |-> join(<<",", " ">>, event.course_codes)]

\* lines 266-278: the listing of the events to be created
Display ==
    /\ pc = "display"
    /\ console' = console \o <<Line("Events to be created:")>>
                          \o [k \in 1..Len(events) |-> Listing(k, events[k])]
    /\ pc' = "confirm"
    /\ UNCHANGED <<API_TOKEN, LANGUAGE, file, events, confirm, success_count,
                   error_count, i, sent, outcomes, exit_code>>

\* Variant of Affirmative that strips the answer first
AffirmativeStripped(answer) == lower(strip(answer)) \in {<<"y", "e", "s">>, <<"y">>}

\* confirm.lower() in ['yes', 'y']
Affirmative(answer) == lower(answer) \in {<<"y", "e", "s">>, <<"y">>}

\* lines 280-290: the prompt, the cancellation, the counters
Confirm(answer) ==
    /\ pc = "confirm"
    /\ confirm' = <<answer>>
    /\ IF Affirmative(answer)
       THEN /\ console' = Append(console, Line("Creating events in Canvas..."))
            /\ success_count' = 0
            /\ error_count' = 0
            /\ i' = 1
            /\ pc' = "loop"
            /\ UNCHANGED exit_code
       ELSE /\ Exit(0, Line("Import cancelled."))
            /\ UNCHANGED <<success_count, error_count, i>>
    /\ UNCHANGED <<API_TOKEN, LANGUAGE, file, events, sent, outcomes>>

\* input() raises EOFError when stdin is closed: lines 333-337
InputEOF ==
    /\ pc = "confirm"
    /\ Exit(1, Line("Unexpected error"))
    /\ UNCHANGED <<API_TOKEN, LANGUAGE, file, events, confirm, success_count,
                   error_count, i, sent, outcomes>>

DisplayMax == 50
DisplayKeep == 47

\* lines 293-298
DisplayTitle(title) ==
    IF Len(title) > DisplayMax THEN Prefix(title, DisplayKeep) \o Ellipsis ELSE title

\* lines 292-302 and 191-224: the next event is formatted and its request is
\* handed to urlopen, which blocks
SendRequest ==
    /\ pc = "loop"
    /\ i <= Len(events)
    /\ console' = Append(console,
                    [tag |-> "Creating", n |-> i,
                     title |-> DisplayTitle(format_event_title(events[i]))])
    /\ sent' = Append(sent, Request(events[i]))
    /\ pc' = "await"
    /\ UNCHANGED <<API_TOKEN, LANGUAGE, file, events, confirm, success_count,
                   error_count, i, outcomes, exit_code>>

\* Variant of IsSuccess that takes every 2xx status for a success
IsSuccessAny2xx(status) == status \in 200..299

\* line 304
IsSuccess(status) == status = 201

\* Variant of Respond that retries the event after a status other than 201
RespondRetry(status) ==
    /\ pc = "await"
    /\ outcomes' = Append(outcomes, [kind |-> "http", status |-> status])
    /\ IF status = 201
       THEN /\ console' = Append(console, [tag |-> "Success", status |-> status])
            /\ success_count' = success_count + 1
            /\ i' = i + 1
            /\ UNCHANGED error_count
       ELSE /\ console' = Append(console, [tag |-> "Error", status |-> status])
            /\ error_count' = error_count + 1
            /\ UNCHANGED <<success_count, i>>
    /\ pc' = "loop"
    /\ UNCHANGED <<API_TOKEN, LANGUAGE, file, events, confirm, sent, exit_code>>

\* lines 224-227 and 304-315: a response with a status arrives (returned by
\* urlopen, or raised as HTTPError and caught), and is counted
Respond(status) ==
    /\ pc = "await"
    /\ outcomes' = Append(outcomes, [kind |-> "http", status |-> status])
    /\ IF IsSuccess(status)
       THEN /\ console' = Append(console, [tag |-> "Success", status |-> status])
            /\ success_count' = success_count + 1
            /\ UNCHANGED error_count
       ELSE /\ console' = Append(console, [tag |-> "Error", status |-> status])
            /\ error_count' = error_count + 1
            /\ UNCHANGED success_count
    /\ i' = i + 1
    /\ pc' = "loop"
    /\ UNCHANGED <<API_TOKEN, LANGUAGE, file, events, confirm, sent, exit_code>>

\* lines 223-227: urlopen raises URLError (no connection, no HTTP status).
\* Only HTTPError is caught, so it leaves create_canvas_event and main, and
\* is caught at lines 333-337.
TransportFailure ==
    /\ pc = "await"
    /\ outcomes' = Append(outcomes, [kind |-> "URLError", status |-> 0])
    /\ Exit(1, Line("Unexpected error"))
    /\ UNCHANGED <<API_TOKEN, LANGUAGE, file, events, confirm, success_count,
                   error_count, i, sent>>

\* lines 317-325: the loop is exhausted, the summary is printed, main returns
Summary ==
    /\ pc = "loop"
    /\ i > Len(events)
    /\ Exit(0, [tag |-> "Import Complete!", created |-> success_count,
                errors |-> error_count])
    /\ UNCHANGED <<API_TOKEN, LANGUAGE, file, events, confirm, success_count,
                   error_count, i, sent, outcomes>>

\* lines 330-332: KeyboardInterrupt while main runs
Interrupt ==
    /\ pc # "exit"
    /\ Exit(0, Line("Import cancelled by user."))
    /\ UNCHANGED <<API_TOKEN, LANGUAGE, file, events, confirm, success_count,
                   error_count, i, sent, outcomes>>

Next ==
    \/ CheckToken
    \/ Parse
    \/ Display
    \/ \E answer \in Answers : Confirm(answer)
    \/ InputEOF
    \/ SendRequest
    \/ \E status \in StatusCodes : Respond(status)
    \/ TransportFailure
    \/ Summary
    \/ Interrupt

Spec == Init /\ [][Next]_vars

(* ------------------------------------------------------------------ *)
(* Properties                                                          *)
(* ------------------------------------------------------------------ *)
HasLine(tag) == \E j \in 1..Len(console) : console[j].tag = tag
LastLineIs(tag) == console # <<>> /\ console[Len(console)].tag = tag
AtSummary == LastLineIs("Import Complete!")
Contains(s, pat) ==
    \E j \in 0..(Len(s) - Len(pat)) : SubSeq(s, j + 1, j + Len(pat)) = pat
CountOutcomes(P(_)) == Cardinality({k \in 1..Len(outcomes) : P(outcomes[k])})

\* The row has no begin date or no begin time (absent or empty)
BlankRow(row) ==
    \/ "Begin date" \in row.none \/ row.f["Begin date"] = <<>>
    \/ "Begin time" \in row.none \/ row.f["Begin time"] = <<>>

\* The begin and the end text of the row are accepted by the format
\* %Y-%m-%d %H:%M (which also takes one-digit month, day, hour and minute)
TimestampsMatch(row) ==
    /\ {"End date", "End time"} \cap row.none = {}
    /\ strptime(DateTimeText(row, "Begin date", "Begin time")).ok
    /\ strptime(DateTimeText(row, "End date", "End time")).ok

WellFormedRow(row) == ~BlankRow(row) /\ TimestampsMatch(row) /\ row.none = {}

RECURSIVE NonBlankRows(_)
NonBlankRows(rows) ==
    IF rows = <<>> THEN <<>>
    ELSE IF BlankRow(Head(rows)) THEN NonBlankRows(Tail(rows))
    ELSE <<Head(rows)>> \o NonBlankRows(Tail(rows))

FileReadable == file.found /\ file.preamble

\* C1: a transport-level failure of a create-request is turned into an error
\* outcome: it is counted in error_count and the run goes on, it never ends
\* the run with the exit status of an unexpected error.
C1_TransportFailureIsCounted ==
    \A k \in 1..Len(outcomes) :
        outcomes[k].kind = "URLError" =>
            /\ success_count + error_count >= k
            /\ ~(pc = "exit" /\ exit_code = 1)

\* C2: when the API token is still the placeholder default of the
\* configuration section, main never gets past the token check: it has not
\* called parse_csv_file and has sent no request.
C2_PlaceholderTokenAborts ==
    API_TOKEN = API_TOKEN_DEFAULT =>
        /\ pc \in {"start", "exit"}
        /\ ~HasLine("banner")
        /\ sent = <<>>

\* C3: every response with status 201 is counted in success_count only, every
\* response with another status in error_count only, each by one; so inside
\* the loop the two counters add up to the number of events processed so far
\* and at the summary to the number of parsed events.
C3_ExactlyOneCounterPerEvent ==
    /\ success_count =
         CountOutcomes(LAMBDA o : o.kind = "http" /\ o.status = 201)
    /\ error_count =
         CountOutcomes(LAMBDA o : o.kind = "http" /\ o.status # 201)
    /\ pc \in {"loop", "await"} => success_count + error_count = i - 1
    /\ AtSummary => success_count + error_count = Len(events)

C3_Witness ==
    /\ AtSummary
    /\ success_count = 1
    /\ error_count = 1
    /\ \E k \in 1..Len(outcomes) : outcomes[k].status = 200

\* The answer is 'yes' or 'y' in any mix of upper and lower case
YesWord(a) ==
    \/ Len(a) = 3 /\ a[1] \in {"y", "Y"} /\ a[2] \in {"e", "E"} /\ a[3] \in {"s", "S"}
    \/ Len(a) = 1 /\ a[1] \in {"y", "Y"}

\* Every parsed event has its entry in the listing on the console
ListingShown ==
    /\ HasLine("Events to be created:")
    /\ \A k \in 1..Len(events) :
         \E j \in 1..Len(console) :
            /\ console[j].tag = "listing"
            /\ console[j].n = k
            /\ console[j].title = format_event_title(events[k])

\* C4: a create-request is sent only after the listing of all parsed events
\* has been shown and the operator has answered 'yes' or 'y' (in any case);
\* after any other answer the run has ended with exit status 0, no request
\* sent and both counters untouched.
C4_NoRequestWithoutConfirmation ==
    /\ (sent # <<>> \/ pc \in {"loop", "await"}) =>
          /\ ListingShown
          /\ Len(confirm) = 1
          /\ YesWord(confirm[1])
    /\ (Len(confirm) = 1 /\ ~YesWord(confirm[1])) =>
          /\ pc = "exit"
          /\ exit_code = 0
          /\ sent = <<>>
          /\ success_count = 0
          /\ error_count = 0

C4_Witness ==
    /\ Len(sent) = 2
    /\ confirm = <<<<"Y", "E", "S">>>>
    /\ ListingShown

\* Some row passes the blank-row check with a begin or end text that the
\* format does not accept
SomeMalformedTimestamp ==
    \E k \in 1..Len(file.rows) :
        ~BlankRow(file.rows[k]) /\ ~TimestampsMatch(file.rows[k])

\* C5: if a row that passes the blank-row check has a begin or end date/time
\* text that does not match the format, parse_csv_file returns no events, not
\* even those of earlier rows; the listing and the prompt are never reached,
\* no request is sent, and the run that has parsed the file has exit status 1.
C5_MalformedTimestampAbortsRun ==
    (FileReadable /\ SomeMalformedTimestamp) =>
        /\ events = <<>>
        /\ sent = <<>>
        /\ confirm = <<>>
        /\ pc \in {"start", "parse", "exit"}
        /\ ~HasLine("Found events to import")
        /\ ~HasLine("Events to be created:")
        /\ (pc = "exit" /\ ~LastLineIs("Import cancelled by user.")) => exit_code = 1

C5_Witness ==
    /\ FileReadable
    /\ Len(file.rows) = 2
    /\ WellFormedRow(file.rows[1])
    /\ ~BlankRow(file.rows[2]) /\ ~TimestampsMatch(file.rows[2])
    /\ LastLineIs("ERROR parsing CSV file")
    /\ exit_code = 1

\* C6: when every row is either blank (begin date or begin time absent or
\* empty) or well-formed, parsing raises no error and returns exactly the
\* events of the non-blank rows, in source order.
C6_BlankRowsSkippedSilently ==
    (FileReadable /\ \A k \in 1..Len(file.rows) :
                        BlankRow(file.rows[k]) \/ WellFormedRow(file.rows[k])) =>
        /\ ~HasLine("ERROR parsing CSV file")
        /\ (HasLine("banner") /\ pc # "parse"
                /\ ~LastLineIs("Import cancelled by user.")) =>
              HasLine("Found events to import")
        /\ HasLine("Found events to import") =>
              /\ Len(events) = Len(NonBlankRows(file.rows))
              /\ \A k \in 1..Len(events) :
                    LET row == NonBlankRows(file.rows)[k]
                    IN  /\ strftime_local(events[k].start) =
                             strftime_local(SubHours(
                                 strptime(DateTimeText(row, "Begin date", "Begin time")).dt,
                                 TIMEZONE_OFFSET).dt)
                        /\ events[k].title = strip(row.f["Title"])
                        /\ events[k].room = strip(row.f["Room"])

C6_Witness ==
    /\ FileReadable
    /\ Len(file.rows) = 2
    /\ WellFormedRow(file.rows[1])
    /\ "Begin time" \notin file.rows[2].none
    /\ file.rows[2].f["Begin time"] = <<>>
    /\ file.rows[2].f["Begin date"] # <<>>
    /\ Len(events) = 1
    /\ success_count = 1
    /\ error_count = 0
    /\ AtSummary

\* The course codes the Course code field stands for: split on commas, each
\* segment trimmed, empty segments dropped, each cut to its first 6 characters
RECURSIVE TrimmedThenTruncated(_)
TrimmedThenTruncated(segments) ==
    IF segments = <<>> THEN <<>>
    ELSE IF strip(Head(segments)) = <<>> THEN TrimmedThenTruncated(Tail(segments))
    ELSE <<Prefix(strip(Head(segments)), 6)>> \o TrimmedThenTruncated(Tail(segments))

\* C7: the course_codes of every parsed event are the comma-separated
\* segments of the row's Course code field, trimmed, without the empty ones,
\* each truncated to its first 6 characters, in source order.
C7_CourseCodesTrimmedAndTruncated ==
    HasLine("Found events to import") =>
        /\ Len(events) = Len(NonBlankRows(file.rows))
        /\ \A k \in 1..Len(events) :
             events[k].course_codes =
                TrimmedThenTruncated(split(NonBlankRows(file.rows)[k].f["Course code"]))

\* The title the precedence rules give an event
TitleFollowsPrecedence(event, title) ==
    /\ event.activities # <<>> => title = join(<<",", " ">>, event.activities)
    /\ (event.activities = <<>> /\ event.title # <<>>) => title = event.title
    /\ (event.activities = <<>> /\ event.title = <<>> /\ event.course_names # <<>>) =>
          LET first == event.course_names[1]
          IN  IF Len(first) <= 40 THEN title = first
              ELSE /\ Len(title) = 40
                   /\ SubSeq(title, 1, 37) = SubSeq(first, 1, 37)
                   /\ SubSeq(title, 38, 40) = <<".", ".", ".">>
    /\ (event.activities = <<>> /\ event.title = <<>> /\ event.course_names = <<>>) =>
          title = <<"E", "v", "e", "n", "t">>

\* C8: the title of every listing entry and of every create-request is the
\* activities joined with ', ' when there are any, else the title when it is
\* not empty, else the first course name (as it is up to 40 characters, else
\* its first 37 characters and '...'), else 'Event'.
C8_TitlePrecedence ==
    /\ \A j \in 1..Len(console) :
          console[j].tag = "listing" =>
              TitleFollowsPrecedence(events[console[j].n], console[j].title)
    /\ \A k \in 1..Len(sent) :
          TitleFollowsPrecedence(events[k], sent[k].calendar_event.title)

C8_Witness ==
    \E k \in 1..Len(sent) :
        /\ events[k].activities = <<>>
        /\ events[k].title = <<>>
        /\ events[k].course_names # <<>>
        /\ Len(events[k].course_names[1]) = 41
        /\ sent[k].calendar_event.title = Rep("x", 37) \o <<".", ".", ".">>

\* The blocks of a description, each recognised by the way it starts
HasCourseBlock(d) ==
    \E label \in {<<"C", "o", "u", "r", "s", "e">>, <<"C", "o", "u", "r", "s", "e", "s">>, <<"K", "u", "r", "s">>, <<"K", "u", "r", "s", "e", "r">>} : Contains(d, label \o <<":", "<", "b", "r", ">", " ", " ", " ">>)
HasActivityBlock(d) == Contains(d, <<Clipboard>>)
HasTitleBlock(d, title) ==
    \E label \in {<<"T", "i", "t", "l", "e">>, <<"T", "i", "t", "e", "l">>} :
        Contains(d, <<Pushpin>> \o <<" ">> \o label \o <<":", " ">> \o title \o <<"<", "b", "r", ">">>)
HasLocationBlock(d) == Contains(d, <<RoundPushpin>>)

\* C9: the description of every create-request has the Title block exactly
\* when the event's title is not empty and equals no entry of its
\* activities; it has the Course, Activity and Location block exactly when
\* course_codes, activities and room, respectively, are not empty.
C9_TitleBlockOnlyWhenNotAnActivity ==
    \A k \in 1..Len(sent) :
        LET e == events[k]
            d == sent[k].calendar_event.description
        IN  /\ HasTitleBlock(d, e.title) <=>
                  (e.title # <<>> /\ \A a \in 1..Len(e.activities) :
                                        e.activities[a] # e.title)
            /\ Contains(d, <<Pushpin>>) => HasTitleBlock(d, e.title)
            /\ HasCourseBlock(d) <=> e.course_codes # <<>>
            /\ HasActivityBlock(d) <=> e.activities # <<>>
            /\ HasLocationBlock(d) <=> e.room # <<>>

C9_Witness ==
    \E k \in 1..Len(sent) :
        /\ Len(events[k].activities) = 2
        /\ events[k].activities[2] = events[k].title
        /\ HasActivityBlock(sent[k].calendar_event.description)
        /\ ~Contains(sent[k].calendar_event.description, <<Pushpin>>)

\* C10: the k-th request sent is the one for the k-th parsed event; a request
\* is sent only when the outcomes of all earlier ones have been received and
\* counted; and at the summary every parsed event has been submitted exactly
\* once, whatever the statuses were.
C10_SequentialInSourceOrder ==
    /\ Len(sent) <= Len(events)
    /\ \A k \in 1..Len(sent) :
          /\ sent[k].calendar_event.title = format_event_title(events[k])
          /\ sent[k].calendar_event.start_at = strftime_iso(events[k].start)
          /\ sent[k].calendar_event.description = format_event_description(events[k])
    /\ Len(sent) <= success_count + error_count + 1
    /\ Len(sent) <= Len(outcomes) + 1
    /\ pc = "loop" => Len(sent) = success_count + error_count
    /\ AtSummary => Len(sent) = Len(events)

C10_Witness ==
    /\ AtSummary
    /\ Len(events) = 2
    /\ sent[1] # sent[2]
    /\ outcomes[1].status = 404
    /\ outcomes[2].status = 201

====
